---- MODULE Spec2Model ----
(***************************************************************************)
(* pycoQC: the class pycoQC of src/pycoQC.py as a state machine.           *)
(*                                                                         *)
(* The state is the sequencing summary file on disk, the notebook's global *)
(* names "p" and "n" (each unbound or bound to a pycoQC object) and the    *)
(* outcome of the last call.  The constructor and the five plotting        *)
(* methods are one action each; what a method "returns" is the table it    *)
(* hands to the plotting library (the plotting itself is not modelled).    *)
(*                                                                         *)
(* Numbers: times are kept in seconds and the hour values of the source    *)
(* (x/3600) as fixed-point numbers with denominator 3600, so a win_size of *)
(* 0.25 h is 900.  Floating-point rounding is not modelled.                *)
(***************************************************************************)
EXTENDS Integers, Sequences, FiniteSets, TLC

VARIABLES file, globals, last

vars == <<file, globals, last>>

----------------------------------------------------------------------------
(* Values *)

\* pandas reads an empty field as NaN: "" in a text column, NaN in a numeric one.
NaN == 0 - 1

None == "<None>"

NoErr == "ok"

StrCols == {"read_id", "run_id"}

NumCols == {"channel", "start_time", "duration", "sequence_length_template",
            "mean_qscore_template", "num_events"}

\* Columns a file may lack (src/pycoQC/__init__.py lists num_events as optional;
\* duration is in neither list).
OptionalCols == {"num_events", "duration"}

AllCols == StrCols \cup NumCols

Names == {"p", "n"}

Unbound == [bound |-> FALSE]

Mk(rd, run, ch, st, du, len, q, ev) ==
    [read_id |-> rd, run_id |-> run, channel |-> ch, start_time |-> st,
     duration |-> du, sequence_length_template |-> len,
     mean_qscore_template |-> q, num_events |-> ev]

----------------------------------------------------------------------------
(* Helpers on sequences and sets *)

Range(s) == {s[i] : i \in DOMAIN s}

RECURSIVE SumSeq(_)
SumSeq(s) == IF s = <<>> THEN 0 ELSE Head(s) + SumSeq(Tail(s))

SetMax(S) == CHOOSE x \in S : \A y \in S : y <= x

SetMin(S) == CHOOSE x \in S : \A y \in S : x <= y

\* The distinct values of a sequence, in order of first appearance.
RECURSIVE Unique(_)
Unique(s) ==
    IF s = <<>> THEN <<>>
    ELSE LET h == Head(s)
             NotH(x) == x # h
         IN <<h>> \o Unique(SelectSeq(Tail(s), NotH))

Count(s, v) == Cardinality({i \in DOMAIN s : s[i] = v})

Perms(S) == {q \in [1..Cardinality(S) -> S] : \A i, j \in DOMAIN q : i # j => q[i] # q[j]}

----------------------------------------------------------------------------
(* The pandas operations the constructor uses *)

IsNull(c, v) == IF c \in StrCols THEN v = "" ELSE v = NaN

\* pd.read_csv: the table of the file, its columns and its rows in file order.
read_csv(f) == [columns |-> f.columns, rows |-> f.rows]

\* DataFrame.dropna: drops every row with a NaN in any column of the table.
dropna(df) ==
    LET Keep(r) == \A c \in df.columns : ~IsNull(c, r[c])
    IN [df EXCEPT !.rows = SelectSeq(df.rows, Keep)]

Column(df, c) == [i \in DOMAIN df.rows |-> df.rows[i][c]]

\* value_counts without the sort: the values in order of first appearance.
value_counts_unsorted(col) ==
    LET keys == Range(col)
        cnt  == [k \in keys |-> Count(col, k)]
    IN {[index |-> Unique(col), values |-> cnt]}

\* Series.value_counts(sort=True): the counts of each value, in descending order
\* of count.  The order among equal counts is left to the library (its hash table
\* and an unstable sort): every order of the tied values is a possible outcome.
value_counts(col) ==
    LET keys == Range(col)
        cnt  == [k \in keys |-> Count(col, k)]
    IN {[index |-> ix, values |-> cnt] :
            ix \in {q \in Perms(keys) :
                      \A i, j \in DOMAIN q : i < j => cnt[q[i]] >= cnt[q[j]]}}

\* Series.get(key, 0) in place of .loc: a missing key counts 0.
LocDefault(counts, key) ==
    [err |-> NoErr,
     val |-> IF key \in DOMAIN counts.values THEN counts.values[key] ELSE 0]

\* Series.loc[key]: KeyError when the key is not in the index.
Loc(counts, key) ==
    IF key \in DOMAIN counts.values
    THEN [err |-> NoErr, val |-> counts.values[key]]
    ELSE [err |-> "KeyError", val |-> 0]

\* The filter left out: every row is kept.
FilterRunAll(df, runid) == df

\* df[df["run_id"] == runid] followed by reset_index(drop=True): the rows of the
\* run, in their order of appearance.
FilterRun(df, runid) ==
    LET Same(r) == r.run_id = runid
    IN [df EXCEPT !.rows = SelectSeq(df.rows, Same)]

\* set_index("read_id", verify_integrity=True): duplicate keys raise.
set_index_verify(df) ==
    IF \E i, j \in DOMAIN df.rows : i < j /\ df.rows[i].read_id = df.rows[j].read_id
    THEN [err |-> "ValueError", df |-> df]
    ELSE [err |-> NoErr, df |-> df]

\* DataFrame.set_index("read_id") with the default verify_integrity=False: the rows
\* are keyed by read_id and duplicate keys are kept.
set_index(df) == [err |-> NoErr, df |-> df]

\* if not runid: None and the empty string are falsy.
Falsy(runid) == runid \in {None, ""}

\* pycoQC.__init__ once runid_counts is known: the object, or the exception.
init(df, runid_counts, runid) ==
    LET fail(e) == [err |-> e, self |-> Unbound]
    IN IF Falsy(runid) /\ runid_counts.index = <<>>
       THEN fail("IndexError")
       ELSE LET id  == IF Falsy(runid) THEN runid_counts.index[1] ELSE runid
                tot == Loc(runid_counts, id)
                ix  == set_index(FilterRun(df, id))
            IN IF tot.err # NoErr THEN fail(tot.err)
               ELSE IF ix.err # NoErr THEN fail(ix.err)
               ELSE [err |-> NoErr,
                     self |-> [bound |-> TRUE, runid |-> id,
                               total_reads |-> tot.val, df |-> ix.df]]

----------------------------------------------------------------------------
(* Name and column lookups of the methods *)

\* A global name read inside a method (the source writes n.df where self.df is
\* meant): NameError when the notebook has not bound it.
Global(g, x) ==
    IF g[x].bound THEN [err |-> NoErr, obj |-> g[x]]
    ELSE [err |-> "NameError", obj |-> Unbound]

\* df[[c1, c2, ...]] and df[c]: KeyError when a column is not in the table.
HasCols(df, cs) == cs \subseteq df.columns

\* A Series is a sequence of <<key, value>> pairs in index order.
Keys(s) == {s[i][1] : i \in DOMAIN s}

Values(s) == [i \in DOMAIN s |-> s[i][2]]

KeyLess(a, b) == a[1] < b[1]

\* Series.sort_index: ascending by key.
sort_index(s) == SortSeq(s, KeyLess)

----------------------------------------------------------------------------
(* channels_activity *)

\* The stop of range(1, 512) in the fill loop, and the grid of reshape(16, 32).
RangeStop == 512

GridRows == 16

GridCols == 32

RowsWhere(df, c, v) ==
    LET Is(r) == r[c] = v
    IN SelectSeq(df.rows, Is)

\* df["channel"].value_counts(sort=False): one entry per channel of the table.
channel_counts(df) ==
    LET chans == Unique(Column(df, "channel"))
    IN [k \in DOMAIN chans |-> <<chans[k], Len(RowsWhere(df, "channel", chans[k]))>>]

\* df.groupby("channel").aggregate(np.sum)[col]: the sum of col per channel.
channel_sums(df, col) ==
    LET chans == Unique(Column(df, "channel"))
    IN sort_index([k \in DOMAIN chans |->
            <<chans[k], SumSeq(Column([df EXCEPT !.rows = RowsWhere(df, "channel", chans[k])], col))>>])

\* for i in range(1, 512): if i not in s.index: s.loc[i] = 0
fill_missing(s) ==
    LET present == Keys(s)
        Absent(e) == e[1] \notin present
    IN s \o SelectSeq([i \in 1..(RangeStop - 1) |-> <<i, 0>>], Absent)

\* s.values.reshape(16, 32): ValueError unless there are 16*32 values.
reshape(s) ==
    IF Len(s) = GridRows * GridCols THEN NoErr ELSE "ValueError"

\* channels_activity(level), lines 108-128: the series s, or the exception.
channels_activity(self, g, level) ==
    LET fail(e) == [err |-> e, s |-> <<>>]
        n == Global(g, "n")
        raw == CASE level = "reads" -> [err |-> NoErr, s |-> channel_counts(self.df)]
                 [] level = "bases" ->
                      IF n.err # NoErr THEN fail(n.err)
                      ELSE [err |-> NoErr,
                            s |-> channel_sums(n.obj.df, "sequence_length_template")]
                 [] level = "events" ->
                      IF n.err # NoErr THEN fail(n.err)
                      ELSE IF ~HasCols(n.obj.df, {"num_events"}) THEN fail("KeyError")
                      ELSE [err |-> NoErr, s |-> channel_sums(n.obj.df, "num_events")]
    IN IF raw.err # NoErr THEN raw
       ELSE LET s == sort_index(fill_missing(raw.s))
            IN [err |-> reshape(s), s |-> s]

Levels == {"reads", "bases", "events"}

----------------------------------------------------------------------------
(* output_over_time and quality_over_time *)

\* np.arange(start, stop, step) for step > 0: start, start+step, ... below stop.
arange(start, stop, step) ==
    LET len == IF stop <= start THEN 0 ELSE ((stop - start) + step - 1) \div step
    IN [i \in 1..len |-> start + (i - 1) * step]

\* (df["start_time"] + df["duration"]) / 3600, as a numerator over 3600.
end_time(df) == [i \in DOMAIN df.rows |-> df.rows[i].start_time + df.rows[i].duration]

\* df[(df["end_time"] >= t) & (df["end_time"] < t + win_size)]
window_rows(df, t, win_size) ==
    LET e == end_time(df)
        idx == {i \in DOMAIN df.rows : e[i] >= t /\ e[i] < t + win_size}
        RECURSIVE Pick(_)
        Pick(i) == IF i > Len(df.rows) THEN <<>>
                   ELSE (IF i \in idx THEN <<df.rows[i]>> ELSE <<>>) \o Pick(i + 1)
    IN Pick(1)

\* output_over_time(level, win_size), lines 188-199: the series df2[level], one
\* entry per window start, or the exception.
output_over_time(self, g, level, win_size) ==
    LET fail(e) == [err |-> e, val |-> <<>>]
        n == Global(g, "n")
    IN IF n.err # NoErr THEN fail(n.err)
       ELSE IF ~HasCols(n.obj.df, {"num_events", "sequence_length_template"})
       THEN fail("KeyError")
       ELSE IF ~HasCols(n.obj.df, {"start_time", "duration"}) THEN fail("KeyError")
       ELSE LET df == n.obj.df
                ts == arange(0, SetMax(Range(end_time(df))), win_size)
                row(t) ==
                    LET sdf == window_rows(df, t, win_size)
                    IN [reads  |-> Len(sdf),
                        bases  |-> SumSeq([i \in DOMAIN sdf |-> sdf[i].sequence_length_template]),
                        events |-> SumSeq([i \in DOMAIN sdf |-> sdf[i].num_events])]
            IN [err |-> NoErr, val |-> [k \in DOMAIN ts |-> <<ts[k], row(ts[k])[level]>>]]

IntLess(a, b) == a < b

\* Series.quantile(j/4) with linear interpolation, as a numerator over 4; <<0, 0>>
\* is the NaN of an empty series.
quantile4(vals, j) ==
    IF vals = <<>> THEN <<0, 0>>
    ELSE LET v == SortSeq(vals, IntLess)
             pos == (Len(v) - 1) * j
             k == pos \div 4
             r == pos % 4
         IN <<4 * v[k + 1] + (IF r = 0 THEN 0 ELSE r * (v[k + 2] - v[k + 1])), 4>>

\* mean, min, max, q1, q3 of a window: the mean as <<sum, count>>, NaN when empty.
window_stats(vals) ==
    [mean |-> <<SumSeq(vals), Len(vals)>>,
     min  |-> IF vals = <<>> THEN NaN ELSE SetMin(Range(vals)),
     max  |-> IF vals = <<>> THEN NaN ELSE SetMax(Range(vals)),
     q1   |-> quantile4(vals, 1),
     q3   |-> quantile4(vals, 3)]

\* quality_over_time(win_size), lines 221-228: the table df2, one row per window
\* start, or the exception.
quality_over_time(self, win_size) ==
    IF ~HasCols(self.df, {"mean_qscore_template"}) THEN [err |-> "KeyError", val |-> <<>>]
    ELSE IF ~HasCols(self.df, {"start_time", "duration"})
    THEN [err |-> "KeyError", val |-> <<>>]
    ELSE LET df == self.df
             ts == arange(0, SetMax(Range(end_time(df))), win_size)
             row(t) ==
                 LET sdf == window_rows(df, t, win_size)
                 IN window_stats([i \in DOMAIN sdf |-> sdf[i].mean_qscore_template])
         IN [err |-> NoErr, val |-> [k \in DOMAIN ts |-> <<ts[k], row(ts[k])>>]]

----------------------------------------------------------------------------
(* reads_len_distribution and mean_qual_distribution *)

\* The bin edges of mean_qual_distribution: np.arange(0, 40, win_size).
QualStart == 0

QualStop == 40

RECURSIVE Pow(_, _)
Pow(b, e) == IF e = 0 THEN 1 ELSE b * Pow(b, e - 1)

\* floor(log10(num/den)) in place of int(...): rounds down below 1 as well.
IntLog10Floor(num, den) ==
    IF num >= den
    THEN SetMax({k \in 0..6 : Pow(10, k) * den <= num})
    ELSE 0 - SetMin({k \in 0..6 : Pow(10, k) * num >= den})

\* int(np.log10(num/den)) for num, den > 0: the logarithm cut toward zero.
IntLog10(num, den) ==
    IF num >= den
    THEN SetMax({k \in 0..6 : Pow(10, k) * den <= num})
    ELSE 0 - SetMax({k \in 0..6 : Pow(10, k) * num <= den})

\* int(np.log10(x)) for any x = num/den: log10(0) is -inf and int(-inf) raises
\* OverflowError; the log10 of a negative number is nan and int(nan) raises
\* ValueError.
int_log10(num, den) ==
    IF num = 0 THEN [err |-> "OverflowError", val |-> 0]
    ELSE IF num < 0 THEN [err |-> "ValueError", val |-> 0]
    ELSE [err |-> NoErr, val |-> IntLog10(num, den)]

\* np.logspace(lo, hi, num, endpoint=True, base=10): num edges 10^(a/b), each kept
\* as the exponent <<a, b>>; the exponents are evenly spaced from lo to hi.
logspace(lo, hi, num) ==
    IF num = 1 THEN << <<lo, 1>> >>
    ELSE [i \in 1..num |-> <<lo * (num - 1) + (i - 1) * (hi - lo), num - 1>>]

\* v >= 10^(a/b) and v <= 10^(a/b) for an integer v >= 0 and b >= 1.
GePow10(v, e) == IF e[1] >= 0 THEN Pow(v, e[2]) >= Pow(10, e[1]) ELSE v > 0

LePow10(v, e) == IF e[1] >= 0 THEN Pow(v, e[2]) <= Pow(10, e[1]) ELSE v = 0

\* Linear edges and values share the denominator den of xmin.
GeLin(v, e) == v >= e

LeLin(v, e) == v <= e

\* np.histogram(values, bins=edges): bin i is [edge i, edge i+1), the last bin also
\* holds its right edge.  Edges are numbers (log = FALSE) or exponents of ten
\* (log = TRUE).  No edge at all raises IndexError, decreasing edges ValueError.
histogram(vals, edges, log, decreasing) ==
    IF edges = <<>> THEN [err |-> "IndexError", counts |-> <<>>]
    ELSE IF decreasing THEN [err |-> "ValueError", counts |-> <<>>]
    ELSE LET k == Len(edges)
             Ge(v, e) == IF log THEN GePow10(v, e) ELSE GeLin(v, e)
             Le(v, e) == IF log THEN LePow10(v, e) ELSE LeLin(v, e)
             In(v, i) == /\ Ge(v, edges[i])
                         /\ IF i = k - 1 THEN Le(v, edges[k]) ELSE ~Ge(v, edges[i + 1])
         IN [err |-> NoErr,
             counts |-> [i \in 1..(k - 1) |->
                            Cardinality({j \in DOMAIN vals : In(vals[j], i)})]]

\* normed=True divides each count by the total of the counts and by the bin
\* width: kept as <<count, total>> per unit of width.
normalise(counts, normed) ==
    IF normed THEN [i \in DOMAIN counts |-> <<counts[i], SumSeq(counts)>>]
    ELSE [i \in DOMAIN counts |-> <<counts[i], 1>>]

\* reads_len_distribution(win_size, normed, xlog, xmin, xmax), lines 264-274, with
\* xmin = xmin[1]/xmin[2] and xmax = 0 for None: the bin edges and the bin heights,
\* or the exception.
reads_len_distribution(self, win_size, normed, xlog, xmin, xmax) ==
    LET fail(e) == [err |-> e, edges |-> <<>>, heights |-> <<>>]
        vals == Column(self.df, "sequence_length_template")
        xmax1 == IF xmax = 0 THEN SetMax(Range(vals)) ELSE xmax
        den == xmin[2]
    IN IF xlog
       THEN LET lo == int_log10(xmin[1], den)
                hi == int_log10(xmax1, 1)
                num == xmax1 \div win_size
            IN IF lo.err # NoErr THEN fail(lo.err)
               ELSE IF hi.err # NoErr THEN fail(hi.err)
               ELSE LET bins == logspace(lo.val, hi.val + 1, num)
                        h == histogram(vals, bins, TRUE,
                                       num >= 2 /\ hi.val + 1 < lo.val)
                    IN IF h.err # NoErr THEN fail(h.err)
                       ELSE [err |-> NoErr, edges |-> bins,
                             heights |-> normalise(h.counts, normed)]
       ELSE LET bins == arange(xmin[1], xmax1 * den, win_size * den)
                h == histogram([i \in DOMAIN vals |-> vals[i] * den], bins,
                               FALSE, FALSE)
            IN IF h.err # NoErr THEN fail(h.err)
               ELSE [err |-> NoErr, edges |-> [i \in DOMAIN bins |-> <<bins[i], den>>],
                     heights |-> normalise(h.counts, normed)]

\* mean_qual_distribution(normed, win_size), lines 159-161: the bin edges and the
\* bin heights, or the exception.  xmin and xmax only set the axis limits.
mean_qual_distribution(self, normed, win_size) ==
    LET vals == Column(self.df, "mean_qscore_template")
        bins == arange(QualStart, QualStop, win_size)
        h == histogram(vals, bins, FALSE, FALSE)
    IN IF h.err # NoErr THEN [err |-> h.err, edges |-> <<>>, heights |-> <<>>]
       ELSE [err |-> NoErr, edges |-> [i \in DOMAIN bins |-> <<bins[i], 1>>],
             heights |-> normalise(h.counts, normed)]

----------------------------------------------------------------------------
(* Bounds and inputs *)

MaxRows == 3

RunIds == {"A", "B"}

\* The runid argument: absent, the empty string, a run of the file, an unknown run.
RunIdArgs == {None, "", "A", "B", "Z"}

Tables(rowset, colsets) ==
    {[columns |-> cs, rows |-> rs] :
        cs \in colsets,
        rs \in UNION {[1..k -> rowset] : k \in 1..MaxRows}}

RowsCtor ==
    {Mk(rd, run, 1, 0, 0, 1, q, 0) :
        rd \in {"r1", "r2"}, run \in RunIds, q \in {NaN, 7}}

RowsChan ==
    {Mk("r1", run, ch, 0, 0, 2, 7, 3) : run \in RunIds, ch \in {1, 2, 512}}

\* Times in seconds; a window of 450 is 0.125 h, one of 900 the default 0.25 h.
\* The quality score falls with the end time, so that window statistics differ.
RowsTime ==
    {Mk("r1", run, 1, st, du, 2, 10 - (st + du) \div 450, 3) :
        run \in RunIds, st \in {0, 900}, du \in {0, 450}}

WinSizes == {450, 900}

\* Read lengths on both sides of a power of ten; the quality score rises with
\* the length, up to one above the last quality bin.
RowsRange ==
    {Mk("r1", "A", 1, 0, 0, len, 5 + 2 * len, 3) : len \in {1, 4, 9, 15}}

BinSizes == {5, 20}

XMins == {<<0, 1>>, <<1, 2>>, <<1, 1>>}

\* xmax: 0 stands for the default None (both are falsy).
XMaxs == {0, 10, 15}

QualBinSizes == {10, 25}

\* Two reads of two runs, apart in channel, end time, length and quality.
RowsAll ==
    {Mk("r1", "A", 1, 0, 900, 9, 23, 3), Mk("r2", "B", 512, 900, 0, 15, 35, 4)}

ColSetsAll == {AllCols \ absent : absent \in SUBSET OptionalCols}

ColSets == {AllCols, AllCols \ {"num_events"}}

----------------------------------------------------------------------------
(* Actions *)

\* name = pycoQC(file, runid): on an exception the name keeps its binding.
Construct(name, runid) ==
    LET df == dropna(read_csv(file))
    IN \E runid_counts \in value_counts(Column(df, "run_id")) :
         LET r == init(df, runid_counts, runid)
         IN /\ last' = [op |-> "__init__", name |-> name, runid |-> runid,
                        err |-> r.err, ret |-> r.self]
            /\ globals' = IF r.err = NoErr
                          THEN [globals EXCEPT ![name] = r.self]
                          ELSE globals
            /\ UNCHANGED file

\* x.channels_activity(level=level)
ChannelsActivity(x, level) ==
    /\ globals[x].bound
    /\ LET r == channels_activity(globals[x], globals, level)
       IN last' = [op |-> "channels_activity", name |-> x, level |-> level,
                   err |-> r.err, s |-> r.s]
    /\ UNCHANGED <<file, globals>>

\* x.output_over_time(level=level, win_size=win_size)
OutputOverTime(x, level, win_size) ==
    /\ globals[x].bound
    /\ LET r == output_over_time(globals[x], globals, level, win_size)
       IN last' = [op |-> "output_over_time", name |-> x, level |-> level,
                   win_size |-> win_size, err |-> r.err, val |-> r.val]
    /\ UNCHANGED <<file, globals>>

\* x.quality_over_time(win_size=win_size)
QualityOverTime(x, win_size) ==
    /\ globals[x].bound
    /\ LET r == quality_over_time(globals[x], win_size)
       IN last' = [op |-> "quality_over_time", name |-> x, win_size |-> win_size,
                   err |-> r.err, val |-> r.val]
    /\ UNCHANGED <<file, globals>>

\* x.reads_len_distribution(win_size=..., normed=..., xlog=..., xmin=..., xmax=...)
ReadsLenDistribution(x, win_size, normed, xlog, xmin, xmax) ==
    /\ globals[x].bound
    /\ LET r == reads_len_distribution(globals[x], win_size, normed, xlog, xmin, xmax)
       IN last' = [op |-> "reads_len_distribution", name |-> x, win_size |-> win_size,
                   normed |-> normed, xlog |-> xlog, xmin |-> xmin, xmax |-> xmax,
                   err |-> r.err, edges |-> r.edges, heights |-> r.heights]
    /\ UNCHANGED <<file, globals>>

\* x.mean_qual_distribution(normed=..., win_size=...)
MeanQualDistribution(x, normed, win_size) ==
    /\ globals[x].bound
    /\ LET r == mean_qual_distribution(globals[x], normed, win_size)
       IN last' = [op |-> "mean_qual_distribution", name |-> x, win_size |-> win_size,
                   normed |-> normed,
                   err |-> r.err, edges |-> r.edges, heights |-> r.heights]
    /\ UNCHANGED <<file, globals>>

Start == [op |-> "start"]

InitState(files) ==
    /\ file \in files
    /\ globals = [x \in Names |-> Unbound]
    /\ last = Start

InitCtor == InitState(Tables(RowsCtor, {AllCols}))

NextCtor == \E name \in Names, runid \in RunIdArgs : Construct(name, runid)

SpecCtor == InitCtor /\ [][NextCtor]_vars

InitChan == InitState(Tables(RowsChan, ColSets))

NextChan ==
    \/ \E name \in Names, runid \in RunIds : Construct(name, runid)
    \/ \E x \in Names, level \in Levels : ChannelsActivity(x, level)

SpecChan == InitChan /\ [][NextChan]_vars

InitTime == InitState(Tables(RowsTime, {AllCols}))

NextTime ==
    \/ \E name \in Names, runid \in RunIds : Construct(name, runid)
    \/ \E x \in Names, level \in Levels, w \in WinSizes : OutputOverTime(x, level, w)
    \/ \E x \in Names, w \in WinSizes : QualityOverTime(x, w)

SpecTime == InitTime /\ [][NextTime]_vars

InitRange == InitState(Tables(RowsRange, {AllCols}))

NextRange ==
    \/ \E runid \in RunIds : Construct("p", runid)
    \/ \E w \in BinSizes, normed, xlog \in BOOLEAN, xmin \in XMins, xmax \in XMaxs :
          ReadsLenDistribution("p", w, normed, xlog, xmin, xmax)
    \/ \E normed \in BOOLEAN, w \in QualBinSizes : MeanQualDistribution("p", normed, w)

SpecRange == InitRange /\ [][NextRange]_vars

Init == InitState(Tables(RowsAll, ColSetsAll))

Next ==
    \/ \E name \in Names, runid \in RunIdArgs : Construct(name, runid)
    \/ \E x \in Names, level \in Levels : ChannelsActivity(x, level)
    \/ \E x \in Names, level \in Levels, w \in WinSizes : OutputOverTime(x, level, w)
    \/ \E x \in Names, w \in WinSizes : QualityOverTime(x, w)
    \/ \E x \in Names, w \in BinSizes, xlog \in BOOLEAN :
          ReadsLenDistribution(x, w, FALSE, xlog, <<1, 1>>, 0)
    \/ \E x \in Names, w \in QualBinSizes : MeanQualDistribution(x, TRUE, w)

Spec == Init /\ [][Next]_vars

----------------------------------------------------------------------------
(* Claims about the constructor *)

\* The positions of the file's rows without any NaN.
GoodRows == {i \in DOMAIN file.rows :
                \A c \in file.columns : ~IsNull(c, file.rows[i][c])}

RowsOfRun(id) == {i \in GoodRows : file.rows[i].run_id = id}

GoodRunIds == {file.rows[i].run_id : i \in GoodRows}

\* The run with the most null-free records, the first seen in the file among ties.
FirstSeenLargest ==
    LET best == SetMax({Cardinality(RowsOfRun(id)) : id \in GoodRunIds})
        tied == {id \in GoodRunIds : Cardinality(RowsOfRun(id)) = best}
    IN file.rows[SetMin({i \in GoodRows : file.rows[i].run_id \in tied})].run_id

\* The read_ids of a run's null-free records, in file order.
RECURSIVE ReadIdsFrom(_, _)
ReadIdsFrom(i, id) ==
    IF i > Len(file.rows) THEN <<>>
    ELSE (IF i \in RowsOfRun(id) THEN <<file.rows[i].read_id>> ELSE <<>>)
         \o ReadIdsFrom(i + 1, id)

\* C1: after construction the RunTable holds exactly the null-free records of the
\* file whose run_id is the selected one: each such record as often as the file
\* has it, and no other record.
C1_RunTableExact ==
    \A x \in Names : globals[x].bound =>
        LET o == globals[x]
        IN \A r \in Range(file.rows) \cup Range(o.df.rows) :
             Count(o.df.rows, r) =
                Cardinality({i \in RowsOfRun(o.runid) : file.rows[i] = r})

\* C1 witness: an object whose file also holds a record of another run and a
\* record of the selected run with a NaN.
C1_Witness ==
    \E x \in Names :
        /\ globals[x].bound
        /\ \E i \in GoodRows : file.rows[i].run_id # globals[x].runid
        /\ \E i \in DOMAIN file.rows \ GoodRows :
              file.rows[i].run_id = globals[x].runid

\* C2 (as claimed): without a run identifier the selected run is the run_id with
\* the most null-free records, and among run_ids that share the highest count the
\* one first seen in the file.
C2_FirstSeenWins ==
    (last.op = "__init__" /\ Falsy(last.runid) /\ last.err = NoErr)
        => last.ret.runid = FirstSeenLargest

\* C2 (amended): without a run identifier the selected run is a run_id with the
\* highest count among the null-free records, and total_reads is that count.
C2_LargestRun ==
    (last.op = "__init__" /\ Falsy(last.runid) /\ last.err = NoErr)
        => /\ last.ret.runid \in GoodRunIds
           /\ \A id \in GoodRunIds :
                 Cardinality(RowsOfRun(id)) <= Cardinality(RowsOfRun(last.ret.runid))
           /\ last.ret.total_reads = Cardinality(RowsOfRun(last.ret.runid))

\* C2 witness: the selected run has more records than another run that comes
\* first in the file.
C2_Witness ==
    /\ last.op = "__init__" /\ last.runid = None /\ last.err = NoErr
    /\ 1 \in GoodRows
    /\ file.rows[1].run_id # last.ret.runid
    /\ last.ret.total_reads = 2

\* C6 (as claimed): a given run identifier that no null-free record carries makes
\* the construction fail and yields no object.
C6_UnknownRunIdFails ==
    (last.op = "__init__" /\ last.runid # None /\ last.runid \notin GoodRunIds)
        => last.err # NoErr /\ ~last.ret.bound

\* C6 (amended): a given non-empty run identifier that no null-free record
\* carries makes the construction fail with the KeyError of the count lookup and
\* yields no object; no object is ever bound for a run_id outside the null-free
\* records.
C6_UnknownNonEmptyRunIdFails ==
    /\ (last.op = "__init__" /\ ~Falsy(last.runid) /\ last.runid \notin GoodRunIds)
          => last.err = "KeyError" /\ ~last.ret.bound
    /\ \A x \in Names : globals[x].bound => globals[x].runid \in GoodRunIds

\* C6 witness: the identifier occurs in the file, but only in a record with a NaN,
\* and the construction failed while another run could have been selected.
C6_Witness ==
    /\ last.op = "__init__" /\ last.err = "KeyError"
    /\ \E i \in DOMAIN file.rows : file.rows[i].run_id = last.runid
    /\ GoodRunIds # {}

HasDuplicateReadIds(rows) ==
    \E i, j \in DOMAIN rows : i < j /\ rows[i].read_id = rows[j].read_id

----------------------------------------------------------------------------
(* Claims about the aggregations *)

\* The aggregate of a channel over a table, computed record by record.
ChannelAggregate(df, level, c) ==
    LET on == {i \in DOMAIN df.rows : df.rows[i].channel = c}
        RECURSIVE Total(_, _)
        Total(i, col) ==
            IF i > Len(df.rows) THEN 0
            ELSE (IF i \in on THEN df.rows[i][col] ELSE 0) + Total(i + 1, col)
    IN CASE level = "reads"  -> Cardinality(on)
         [] level = "bases"  -> Total(1, "sequence_length_template")
         [] level = "events" -> Total(1, "num_events")

\* C3: for every level whose column the table has, channel aggregation yields 512
\* entries keyed 1..512 in ascending order, the entry of channel c being the
\* aggregate over the receiver's records of channel c (0 when it has none), and at
\* level reads the entries sum to the run's record count.
C3_FixedShape ==
    (last.op = "channels_activity"
        /\ (last.level = "events" => "num_events" \in file.columns))
    => LET df == globals[last.name].df
       IN /\ last.err = NoErr
          /\ Len(last.s) = 512
          /\ \A c \in 1..512 : last.s[c] = <<c, ChannelAggregate(df, last.level, c)>>
          /\ last.level = "reads" => SumSeq(Values(last.s)) = Len(df.rows)

\* C4: a time-windowed aggregation that returns places every record of the
\* receiver's RunTable in exactly one of its windows [t, t + win_size), and at level
\* reads the window counts sum to the number of records.
C4_Partition ==
    (last.op \in {"output_over_time", "quality_over_time"} /\ last.err = NoErr)
    => LET df == globals[last.name].df
           e == end_time(df)
           starts == Keys(last.val)
       IN /\ \A i \in DOMAIN df.rows :
                Cardinality({t \in starts : t <= e[i] /\ e[i] < t + last.win_size}) = 1
          /\ (last.op = "output_over_time" /\ last.level = "reads")
                => SumSeq(Values(last.val)) = Len(df.rows)

\* C5: in linear mode the non-normalized bin counts sum to the number of records
\* whose value v satisfies min <= v < max (max defaulting to the data maximum; for
\* the quality distribution min = 0 and max = 40).  Stated for the calls that
\* return at least one bin.
C5_CountsCoverRange ==
    LET df == globals[last.name].df
        total == SumSeq([i \in DOMAIN last.heights |-> last.heights[i][1]])
    IN /\ (last.op = "reads_len_distribution" /\ ~last.xlog /\ ~last.normed
              /\ last.err = NoErr /\ Len(last.edges) >= 2)
          => LET v == Column(df, "sequence_length_template")
                 max == IF last.xmax = 0 THEN SetMax(Range(v)) ELSE last.xmax
             IN total = Cardinality({i \in DOMAIN v :
                            last.xmin[1] <= v[i] * last.xmin[2] /\ v[i] < max})
       /\ (last.op = "mean_qual_distribution" /\ ~last.normed /\ last.err = NoErr
              /\ Len(last.edges) >= 2)
          => LET v == Column(df, "mean_qscore_template")
             IN total = Cardinality({i \in DOMAIN v : 0 <= v[i] /\ v[i] < 40})

\* 10^k <= num/den and num/den <= 10^k, for any integer k.
Pow10AtMost(k, num, den) ==
    IF k >= 0 THEN Pow(10, k) * den <= num ELSE den <= num * Pow(10, 0 - k)

Pow10AtLeast(k, num, den) ==
    IF k >= 0 THEN num <= Pow(10, k) * den ELSE num * Pow(10, 0 - k) <= den

IsFloorLog10(k, num, den) == Pow10AtMost(k, num, den) /\ ~Pow10AtMost(k + 1, num, den)

IsCeilLog10(k, num, den) == Pow10AtLeast(k, num, den) /\ ~Pow10AtLeast(k - 1, num, den)

\* The logarithm rounded toward zero: down from 1 on, up below 1.
IsTruncLog10(k, num, den) ==
    IF num >= den THEN IsFloorLog10(k, num, den) ELSE IsCeilLog10(k, num, den)

Exponents == (0 - 4)..4

\* The arguments of the last call, a logarithmic reads_len_distribution: the
\* effective max and the number of edges asked for.
LogMax ==
    IF last.xmax = 0
    THEN SetMax(Range(Column(globals[last.name].df, "sequence_length_template")))
    ELSE last.xmax

LogNum == LogMax \div last.win_size

\* The edges run from 10^lo to 10^hi.
EdgesSpan(lo, hi) ==
    LET b == Len(last.edges) - 1
    IN /\ last.edges[1] = <<lo * b, b>>
       /\ last.edges[Len(last.edges)] = <<hi * b, b>>

Needs(op, level) ==
    CASE op = "channels_activity" ->
            {"channel"} \cup (IF level = "bases" THEN {"sequence_length_template"}
                              ELSE IF level = "events" THEN {"num_events"} ELSE {})
      [] op = "output_over_time" ->
            {"start_time", "duration"}
               \cup (IF level = "bases" THEN {"sequence_length_template"}
                     ELSE IF level = "events" THEN {"num_events"} ELSE {})

\* C8: a file lacking num_events or duration loads, and channel or time-windowed
\* aggregation fails for a missing field (KeyError) only when the level asked for
\* reads a column the file lacks.
C8_MissingFieldOnlyWhenNeeded ==
    /\ (last.op = "__init__" /\ Falsy(last.runid) /\ GoodRows # {})
          => last.err = NoErr
    /\ (last.op \in {"channels_activity", "output_over_time"} /\ last.err = "KeyError")
          => ~(Needs(last.op, last.level) \subseteq file.columns)

\* The global environments that differ from the current one outside the receiver:
\* every other name unbound or bound to any object now alive.
Ambient(x) ==
    {g \in [Names -> {Unbound} \cup {globals[y] : y \in Names}] : g[x] = globals[x]}

\* C10: the result of an aggregation is fixed by the receiver's RunTable and the
\* arguments: the same call gives the same result whatever the other global names
\* are bound to.
C10_ReceiverOnly ==
    /\ last.op = "channels_activity"
          => \A g \in Ambient(last.name) :
                LET r == channels_activity(globals[last.name], g, last.level)
                IN r.err = last.err /\ r.s = last.s
    /\ last.op = "output_over_time"
          => \A g \in Ambient(last.name) :
                LET r == output_over_time(globals[last.name], g, last.level, last.win_size)
                IN r.err = last.err /\ r.val = last.val

====
